---- MODULE Spec2Model ----
(***************************************************************************)
(* The VRF guessing-game program (vrf-program): the two records it keeps   *)
(* in account storage, their Borsh encoding, and the five operations of    *)
(* processor.rs that load, change and store them.                          *)
(*                                                                         *)
(* Account storage is a byte sequence.  Every operation decodes the bytes  *)
(* it finds (try_from_slice), changes the decoded record and encodes it    *)
(* back (serialize); the host keeps the bytes only when the operation      *)
(* returns Ok.                                                             *)
(***************************************************************************)
EXTENDS Integers, Sequences, FiniteSets, TLC

(***************************************************************************)
(* Bounds of the model.                                                    *)
(***************************************************************************)
\* number of distinct identities that can sign a call
NumKeys == 2
\* longest seed a commit carries
MaxSeedLen == 1

(***************************************************************************)
(* Widths fixed by the program's types.                                    *)
(***************************************************************************)
\* Pubkey, [u8; 32] randomness and public_key
PUBKEY_BYTES == 32
RANDOMNESS_BYTES == 32
\* [u8; 64] proof
PROOF_BYTES == 64

None == << >>
Some(v) == << v >>
Unwrap(o) == o[1]

Pubkey(i) == [j \in 1..PUBKEY_BYTES |-> i]
Keys == { Pubkey(i) : i \in 1..NumKeys }

\* the dummy key of initialize_vrf
public_key == [j \in 1..PUBKEY_BYTES |-> 1]

SeedBytes == {7}
RECURSIVE SeqsUpTo(_, _)
SeqsUpTo(S, n) ==
    IF n = 0 THEN { << >> }
    ELSE LET shorter == SeqsUpTo(S, n - 1)
         IN  shorter \cup { Append(s, b) : s \in shorter, b \in S }
Seeds == SeqsUpTo(SeedBytes, MaxSeedLen)

ProofFills == {1, 255}
Proofs == { [j \in 1..PROOF_BYTES |-> b] : b \in ProofFills }

GameStates == {"AwaitingRandomness", "AwaitingPlayerGuess", "GameComplete"}
GameResults == {"Win", "Lose"}

(***************************************************************************)
(* Sha3_256 over the bytes fed to the hasher: a fixed function from a byte *)
(* sequence to 32 bytes.  The digest is not computed bit for bit; each     *)
(* input byte and its position changes the state it is folded into.        *)
(***************************************************************************)
RECURSIVE Absorb(_, _, _)
Absorb(msg, lo, hi) ==
    IF lo > hi THEN 0
    ELSE IF lo = hi THEN msg[lo] * (3 * lo + 1) + lo
    ELSE LET mid == (lo + hi) \div 2
         IN  Absorb(msg, lo, mid) + Absorb(msg, mid + 1, hi)

Sha3_256(msg) ==
    LET h == (90 + Absorb(msg, 1, Len(msg))) % 256
    IN  [j \in 1..RANDOMNESS_BYTES |-> (h + 37 * (j - 1)) % 256]

\* the modulus is one too large
calculate_game_number_mod_101(randomness) == randomness[1] % 101

\* the first byte is taken as it is
calculate_game_number_no_mod(randomness) == randomness[1]

\* state.rs: first byte of the randomness modulo 100
calculate_game_number(randomness) == randomness[1] % 100

(***************************************************************************)
(* Borsh encoding of the two records.                                      *)
(***************************************************************************)
EncBool(b) == IF b THEN <<1>> ELSE <<0>>

U32LE(n) == << n % 256, (n \div 256) % 256, (n \div 65536) % 256,
               (n \div 16777216) % 256 >>

EncVec(v) == U32LE(Len(v)) \o v

EncOptionBytes(o) == IF o = None THEN <<0>> ELSE <<1>> \o Unwrap(o)

EncOptionVec(o) == IF o = None THEN <<0>> ELSE <<1>> \o EncVec(Unwrap(o))

\* a present value is written without the byte that says it is present
EncOptionU8_untagged(o) == IF o = None THEN <<0>> ELSE <<Unwrap(o)>>

EncOptionU8(o) == IF o = None THEN <<0>> ELSE <<1, Unwrap(o)>>

EncGameState(g) ==
    CASE g = "AwaitingRandomness" -> <<0>>
      [] g = "AwaitingPlayerGuess" -> <<1>>
      [] g = "GameComplete" -> <<2>>

EncGameResult(r) ==
    CASE r = "Win" -> <<0>>
      [] r = "Lose" -> <<1>>

EncOptionResult(o) == IF o = None THEN <<0>> ELSE <<1>> \o EncGameResult(Unwrap(o))

\* VrfAccountState::serialize
EncVrf(s) ==
    s.authority \o EncBool(s.is_initialized) \o EncOptionVec(s.seed)
      \o EncOptionBytes(s.randomness) \o EncOptionBytes(s.proof) \o s.public_key

\* GameAccountState::serialize
EncGame(s) ==
    s.authority \o EncBool(s.is_initialized) \o EncOptionBytes(s.randomness)
      \o EncGameState(s.game_state) \o EncOptionU8(s.player_guess)
      \o EncOptionResult(s.result)

(***************************************************************************)
(* Borsh decoding: each reader takes the bytes left and yields the value   *)
(* read and the bytes after it, or fails.                                  *)
(***************************************************************************)
Fail == [ok |-> FALSE]
Read(v, rest) == [ok |-> TRUE, val |-> v, rest |-> rest]
After(buf, n) == SubSeq(buf, n + 1, Len(buf))

ReadBytes(buf, n) ==
    IF Len(buf) >= n THEN Read(SubSeq(buf, 1, n), After(buf, n)) ELSE Fail

ReadBool(buf) ==
    IF Len(buf) = 0 THEN Fail
    ELSE IF buf[1] = 0 THEN Read(FALSE, After(buf, 1))
    ELSE IF buf[1] = 1 THEN Read(TRUE, After(buf, 1))
    ELSE Fail

ReadU8(buf) == IF Len(buf) = 0 THEN Fail ELSE Read(buf[1], After(buf, 1))

ReadU32(buf) ==
    IF Len(buf) < 4 THEN Fail
    ELSE Read(buf[1] + 256 * buf[2] + 65536 * buf[3] + 16777216 * buf[4],
              After(buf, 4))

\* a length of 2^31 or more is beyond the end of every buffer: the read of
\* the elements fails, and the length itself is not computed
ReadVec(buf) ==
    IF Len(buf) >= 4 /\ buf[4] >= 128 THEN Fail
    ELSE LET n == ReadU32(buf)
         IN  IF ~n.ok THEN Fail ELSE ReadBytes(n.rest, n.val)

ReadGameState(buf) ==
    IF Len(buf) = 0 THEN Fail
    ELSE IF buf[1] = 0 THEN Read("AwaitingRandomness", After(buf, 1))
    ELSE IF buf[1] = 1 THEN Read("AwaitingPlayerGuess", After(buf, 1))
    ELSE IF buf[1] = 2 THEN Read("GameComplete", After(buf, 1))
    ELSE Fail

ReadGameResult(buf) ==
    IF Len(buf) = 0 THEN Fail
    ELSE IF buf[1] = 0 THEN Read("Win", After(buf, 1))
    ELSE IF buf[1] = 1 THEN Read("Lose", After(buf, 1))
    ELSE Fail

\* Option<T>: tag 0 is None, tag 1 is Some followed by T, any other tag fails;
\* payload is what reading a T from the bytes after the tag yields
ReadOption(buf, payload) ==
    IF Len(buf) = 0 THEN Fail
    ELSE IF buf[1] = 0 THEN Read(None, After(buf, 1))
    ELSE IF buf[1] = 1
         THEN IF payload.ok THEN Read(Some(payload.val), payload.rest) ELSE Fail
    ELSE Fail

ReadRandomness(buf) == ReadBytes(buf, RANDOMNESS_BYTES)
ReadProof(buf) == ReadBytes(buf, PROOF_BYTES)
ReadPubkey(buf) == ReadBytes(buf, PUBKEY_BYTES)

\* VrfAccountState::deserialize
DecVrf(buf) ==
    LET a == ReadPubkey(buf) IN
    IF ~a.ok THEN Fail ELSE
    LET i == ReadBool(a.rest) IN
    IF ~i.ok THEN Fail ELSE
    LET s == ReadOption(i.rest, ReadVec(After(i.rest, 1))) IN
    IF ~s.ok THEN Fail ELSE
    LET r == ReadOption(s.rest, ReadRandomness(After(s.rest, 1))) IN
    IF ~r.ok THEN Fail ELSE
    LET p == ReadOption(r.rest, ReadProof(After(r.rest, 1))) IN
    IF ~p.ok THEN Fail ELSE
    LET k == ReadPubkey(p.rest) IN
    IF ~k.ok THEN Fail ELSE
    Read([authority |-> a.val, is_initialized |-> i.val, seed |-> s.val,
          randomness |-> r.val, proof |-> p.val, public_key |-> k.val],
         k.rest)

\* GameAccountState::deserialize
DecGame(buf) ==
    LET a == ReadPubkey(buf) IN
    IF ~a.ok THEN Fail ELSE
    LET i == ReadBool(a.rest) IN
    IF ~i.ok THEN Fail ELSE
    LET r == ReadOption(i.rest, ReadRandomness(After(i.rest, 1))) IN
    IF ~r.ok THEN Fail ELSE
    LET g == ReadGameState(r.rest) IN
    IF ~g.ok THEN Fail ELSE
    LET p == ReadOption(g.rest, ReadU8(After(g.rest, 1))) IN
    IF ~p.ok THEN Fail ELSE
    LET o == ReadOption(p.rest, ReadGameResult(After(p.rest, 1))) IN
    IF ~o.ok THEN Fail ELSE
    Read([authority |-> a.val, is_initialized |-> i.val, randomness |-> r.val,
          game_state |-> g.val, player_guess |-> p.val, result |-> o.val],
         o.rest)

\* try_from_slice: deserialize, and fail unless every byte was read
\* d is what deserialize yields on the whole slice
TryFromSlice(d) ==
    IF d.ok /\ Len(d.rest) = 0 THEN [ok |-> TRUE, val |-> d.val] ELSE Fail

VrfTryFromSlice(buf) == TryFromSlice(DecVrf(buf))
GameTryFromSlice(buf) == TryFromSlice(DecGame(buf))

(***************************************************************************)
(* Inputs of the operations.                                               *)
(***************************************************************************)
\* the randomness a reveal can derive from the proofs and seeds of the model
Derivable == { Sha3_256(p \o s) : p \in Proofs, s \in Seeds }

\* guesses: the winning number of each derivable randomness, its successor
\* modulo 100, and two values outside 0..99
Guesses ==
    { calculate_game_number(r) : r \in Derivable }
      \cup { (calculate_game_number(r) + 1) % 100 : r \in Derivable }
      \cup {100, 255}

\* the first account of a call: the acting identity and whether it signed;
\* every identity signing, and one identity named without its signature
Signers ==
    [key : Keys, is_signer : {TRUE}]
      \cup { [key |-> Pubkey(1), is_signer |-> FALSE] }

program_id == "program_id"
other_program == "other_program"

(***************************************************************************)
(* State.                                                                  *)
(*   vrf_account, game_account: the two accounts passed together to every  *)
(*     operation: the program that owns the account and its data bytes;    *)
(*   alloc: how the host sized the data of the accounts:                   *)
(*     "fitted": the data is as long as the record stored in it (storage   *)
(*        sized to the record, under which a stored record loads again),   *)
(*     "fixed": the length is set at allocation and never changes;         *)
(*   last: the last call: the operation, the acting identity, what the     *)
(*     call returned and, when it returned Ok, the payload it applied.     *)
(***************************************************************************)
VARIABLES vrf_account, game_account, alloc, last

vars == << vrf_account, game_account, alloc, last >>

(***************************************************************************)
(* record.serialize(&mut *account.data.borrow_mut()): the encoding is      *)
(* written over the front of the data; writing fails when the data is      *)
(* shorter than the encoding, after the part that fits was written.        *)
(***************************************************************************)
Serialize(enc, data) ==
    IF alloc = "fitted" THEN [ok |-> TRUE, data |-> enc]
    ELSE IF Len(enc) <= Len(data)
         THEN [ok |-> TRUE, data |-> enc \o After(data, Len(enc))]
    ELSE [ok |-> FALSE, data |-> SubSeq(enc, 1, Len(data))]

\* what an operation leaves: its result and the bytes of the two accounts
Outcome(result, vrf_data, game_data) ==
    [result |-> result, vrf_data |-> vrf_data, game_data |-> game_data]

NewGame(key) ==
    [authority |-> key, is_initialized |-> TRUE, randomness |-> None,
     game_state |-> "AwaitingRandomness", player_guess |-> None,
     result |-> None]

NewVrf(key) ==
    [authority |-> key, is_initialized |-> TRUE, seed |-> None,
     randomness |-> None, proof |-> None, public_key |-> public_key]

(***************************************************************************)
(* The field updates of the operations.                                    *)
(***************************************************************************)
\* the signature is not looked at
Signed_unchecked(account) == TRUE

\* every operation: the first account signed the transaction
Signed(account) == account.is_signer

\* the check left out: every signer passes
IsAuthority_anyone(vrf_state, authority) == TRUE

\* request_randomness, fulfill_randomness: the signer is the stored authority
IsAuthority(vrf_state, authority) == vrf_state.authority = authority.key

\* the seed handed in is not stored
SetSeed_not_stored(vrf_state, seed) ==
    [vrf_state EXCEPT !.randomness = None, !.proof = None]

\* the proof of the round before is left in place
SetSeed_keeps_proof(vrf_state, seed) ==
    [vrf_state EXCEPT !.seed = Some(seed), !.randomness = None]

\* request_randomness: set the seed, drop the previous reveal
SetSeed(vrf_state, seed) ==
    [vrf_state EXCEPT !.seed = Some(seed), !.randomness = None, !.proof = None]

\* a record without a seed is read as one with the empty seed
CommittedSeed_or_empty(vrf_state) ==
    IF vrf_state.seed = None THEN Some(<< >>) ELSE vrf_state.seed

\* fulfill_randomness: the seed the reveal is made on, if one is committed
CommittedSeed(vrf_state) == vrf_state.seed

\* the guess of the round before is left in place
ResetGame_keeps_guess(game_state) ==
    [game_state EXCEPT !.game_state = "AwaitingRandomness",
                       !.randomness = None,
                       !.result = None]

\* request_randomness: put the game back to the start of a round
ResetGame(game_state) ==
    [game_state EXCEPT !.game_state = "AwaitingRandomness",
                       !.randomness = None,
                       !.player_guess = None,
                       !.result = None]

\* the seed is hashed before the proof
DeriveRandomness_seed_first(proof, seed) == Sha3_256(seed \o proof)

\* fulfill_randomness: hash the proof and then the seed
DeriveRandomness(proof, seed) == Sha3_256(proof \o seed)

\* fulfill_randomness: store the proof and the randomness derived from it
SetReveal(vrf_state, proof, randomness_bytes) ==
    [vrf_state EXCEPT !.proof = Some(proof),
                      !.randomness = Some(randomness_bytes)]

\* the game is opened for guessing without the randomness
SetGameRandomness_phase_only(game_state, randomness_bytes) ==
    [game_state EXCEPT !.game_state = "AwaitingPlayerGuess"]

\* fulfill_randomness: hand the randomness to the game
SetGameRandomness(game_state, randomness_bytes) ==
    [game_state EXCEPT !.randomness = Some(randomness_bytes),
                       !.game_state = "AwaitingPlayerGuess"]

\* a guess is taken in every phase
GuessAllowed_any_phase(game_state, player) == TRUE

\* guessing reserved to the game's authority
GuessAllowed_authority_only(game_state, player) ==
    /\ game_state.game_state = "AwaitingPlayerGuess"
    /\ game_state.authority = player.key

\* submit_guess: a guess is taken in AwaitingPlayerGuess, whoever signs it
GuessAllowed(game_state, player) ==
    game_state.game_state = "AwaitingPlayerGuess"

\* submit_guess: Win when the guess is the game number
Judge(guess, game_number) == IF guess = game_number THEN "Win" ELSE "Lose"

\* the result is not recorded
CompleteGame_no_result(game_state, guess, result) ==
    [game_state EXCEPT !.player_guess = Some(guess),
                       !.game_state = "GameComplete"]

\* submit_guess: record the guess and its result, close the game
CompleteGame(game_state, guess, result) ==
    [game_state EXCEPT !.player_guess = Some(guess),
                       !.result = Some(result),
                       !.game_state = "GameComplete"]

(***************************************************************************)
(* processor.rs: the five operations.                                      *)
(***************************************************************************)
initialize_vrf(authority, vrf, game) ==
    IF ~Signed(authority)
    THEN Outcome("MissingRequiredSignature", vrf.data, game.data)
    ELSE IF vrf.owner # program_id
    THEN Outcome("IncorrectProgramId", vrf.data, game.data)
    ELSE LET w == Serialize(EncVrf(NewVrf(authority.key)), vrf.data)
         IN  Outcome(IF w.ok THEN "Ok" ELSE "BorshIoError", w.data, game.data)

request_randomness(authority, vrf, game, seed) ==
    IF ~Signed(authority)
    THEN Outcome("MissingRequiredSignature", vrf.data, game.data)
    ELSE IF vrf.owner # program_id \/ game.owner # program_id
    THEN Outcome("IncorrectProgramId", vrf.data, game.data)
    ELSE LET v == VrfTryFromSlice(vrf.data) IN
    IF ~v.ok THEN Outcome("BorshIoError", vrf.data, game.data)
    ELSE IF ~IsAuthority(v.val, authority)
    THEN Outcome("InvalidAuthority", vrf.data, game.data)
    ELSE LET g == IF Len(game.data) = 0
                  THEN [ok |-> TRUE, val |-> NewGame(authority.key)]
                  ELSE GameTryFromSlice(game.data) IN
    IF ~g.ok THEN Outcome("BorshIoError", vrf.data, game.data)
    ELSE LET vrf_state == SetSeed(v.val, seed)
             game_state == ResetGame(g.val)
             w1 == Serialize(EncVrf(vrf_state), vrf.data) IN
    IF ~w1.ok THEN Outcome("BorshIoError", w1.data, game.data)
    ELSE LET w2 == Serialize(EncGame(game_state), game.data)
         IN  Outcome(IF w2.ok THEN "Ok" ELSE "BorshIoError", w1.data, w2.data)

fulfill_randomness(authority, vrf, game, proof) ==
    IF ~Signed(authority)
    THEN Outcome("MissingRequiredSignature", vrf.data, game.data)
    ELSE IF vrf.owner # program_id \/ game.owner # program_id
    THEN Outcome("IncorrectProgramId", vrf.data, game.data)
    ELSE LET v == VrfTryFromSlice(vrf.data) IN
    IF ~v.ok THEN Outcome("BorshIoError", vrf.data, game.data)
    ELSE IF ~IsAuthority(v.val, authority)
    THEN Outcome("InvalidAuthority", vrf.data, game.data)
    ELSE LET seed == CommittedSeed(v.val) IN
    IF seed = None THEN Outcome("InvalidArgument", vrf.data, game.data)
    ELSE LET randomness_bytes == DeriveRandomness(proof, Unwrap(seed))
             vrf_state == SetReveal(v.val, proof, randomness_bytes)
             g == GameTryFromSlice(game.data) IN
    IF ~g.ok THEN Outcome("BorshIoError", vrf.data, game.data)
    ELSE LET game_state == SetGameRandomness(g.val, randomness_bytes)
             w1 == Serialize(EncVrf(vrf_state), vrf.data) IN
    IF ~w1.ok THEN Outcome("BorshIoError", w1.data, game.data)
    ELSE LET w2 == Serialize(EncGame(game_state), game.data)
         IN  Outcome(IF w2.ok THEN "Ok" ELSE "BorshIoError", w1.data, w2.data)

initialize_game(authority, vrf, game) ==
    IF ~Signed(authority)
    THEN Outcome("MissingRequiredSignature", vrf.data, game.data)
    ELSE IF game.owner # program_id
    THEN Outcome("IncorrectProgramId", vrf.data, game.data)
    ELSE LET w == Serialize(EncGame(NewGame(authority.key)), game.data)
         IN  Outcome(IF w.ok THEN "Ok" ELSE "BorshIoError", vrf.data, w.data)

submit_guess(player, vrf, game, guess) ==
    IF ~Signed(player)
    THEN Outcome("MissingRequiredSignature", vrf.data, game.data)
    ELSE IF game.owner # program_id
    THEN Outcome("IncorrectProgramId", vrf.data, game.data)
    ELSE LET g == GameTryFromSlice(game.data) IN
    IF ~g.ok THEN Outcome("BorshIoError", vrf.data, game.data)
    ELSE IF ~GuessAllowed(g.val, player)
    THEN Outcome("InvalidGameState", vrf.data, game.data)
    ELSE IF g.val.randomness = None
    THEN Outcome("RandomnessNotAvailable", vrf.data, game.data)
    ELSE LET game_number == calculate_game_number(Unwrap(g.val.randomness))
             result == Judge(guess, game_number)
             game_state == CompleteGame(g.val, guess, result)
             w == Serialize(EncGame(game_state), game.data)
         IN  Outcome(IF w.ok THEN "Ok" ELSE "BorshIoError", vrf.data, w.data)

\* what a failed operation wrote is kept
Call_keeps_writes(op, signer, arg, out) ==
    /\ vrf_account' = [vrf_account EXCEPT !.data = out.vrf_data]
    /\ game_account' = [game_account EXCEPT !.data = out.game_data]
    /\ last' = [op |-> op, key |-> signer.key, is_signer |-> signer.is_signer,
                arg |-> IF out.result = "Ok" THEN arg ELSE None,
                result |-> out.result]
    /\ UNCHANGED alloc

(***************************************************************************)
(* One call: the host runs the operation and keeps what it wrote to the    *)
(* accounts only when it returned Ok.                                      *)
(***************************************************************************)
Call(op, signer, arg, out) ==
    /\ vrf_account' = IF out.result = "Ok"
                      THEN [vrf_account EXCEPT !.data = out.vrf_data]
                      ELSE vrf_account
    /\ game_account' = IF out.result = "Ok"
                       THEN [game_account EXCEPT !.data = out.game_data]
                       ELSE game_account
    /\ last' = [op |-> op, key |-> signer.key, is_signer |-> signer.is_signer,
                arg |-> IF out.result = "Ok" THEN arg ELSE None,
                result |-> out.result]
    /\ UNCHANGED alloc

\* process_instruction: VrfInstruction::Initialize
Initialize ==
    \E signer \in Signers :
        Call("Initialize", signer, None,
             initialize_vrf(signer, vrf_account, game_account))

\* process_instruction: VrfInstruction::RequestRandomness { seed }
RequestRandomness ==
    \E signer \in Signers, seed \in Seeds :
        Call("RequestRandomness", signer, Some(seed),
             request_randomness(signer, vrf_account, game_account, seed))

\* process_instruction: VrfInstruction::FulfillRandomness { proof }
FulfillRandomness ==
    \E signer \in Signers, proof \in Proofs :
        Call("FulfillRandomness", signer, Some(proof),
             fulfill_randomness(signer, vrf_account, game_account, proof))

\* process_game_instruction: GameInstruction::InitializeGame
InitializeGame ==
    \E signer \in Signers :
        Call("InitializeGame", signer, None,
             initialize_game(signer, vrf_account, game_account))

\* process_game_instruction: GameInstruction::SubmitGuess { guess }
SubmitGuess ==
    \E signer \in Signers, guess \in Guesses :
        Call("SubmitGuess", signer, Some(guess),
             submit_guess(signer, vrf_account, game_account, guess))

\* before the first call: two accounts created empty by the allocation step
NoCall == [op |-> "none", key |-> None, is_signer |-> FALSE, arg |-> None,
           result |-> "none"]

Init ==
    /\ vrf_account \in [owner : {program_id, other_program}, data : {<< >>}]
    /\ game_account \in [owner : {program_id, other_program}, data : {<< >>}]
    /\ alloc = "fitted"
    /\ last = NoCall

Next ==
    \/ Initialize
    \/ RequestRandomness
    \/ FulfillRandomness
    \/ InitializeGame
    \/ SubmitGuess

Spec == Init /\ [][Next]_vars

(***************************************************************************)
(* The records the accounts hold, as the next operation would load them.   *)
(***************************************************************************)
VrfLoaded == VrfTryFromSlice(vrf_account.data)
GameLoaded == GameTryFromSlice(game_account.data)
VrfRecord == VrfLoaded.val
GameRecord == GameLoaded.val

\* what the accounts hold: nothing yet, or a record that loads
TypeOK ==
    /\ vrf_account.data = << >> \/ VrfLoaded.ok
    /\ game_account.data = << >>
         \/ ( /\ GameLoaded.ok
              /\ GameRecord.game_state \in GameStates
              /\ GameRecord.result = None \/ Unwrap(GameRecord.result) \in GameResults )

\* both accounts of the pair are under the program's custody
Owned == vrf_account.owner = program_id /\ game_account.owner = program_id

VrfOps == {"Initialize", "RequestRandomness", "FulfillRandomness"}

(***************************************************************************)
(* Authority                                                               *)
(***************************************************************************)

\* C1: a commit or reveal signed by an identity other than the authority
\* stored in the RandomnessRecord returns InvalidAuthority and leaves the
\* RandomnessRecord and the GameRecord passed with it as they were.
C1_CommitRevealNeedAuthority ==
    [][ ( /\ last'.op \in {"RequestRandomness", "FulfillRandomness"}
          /\ last'.is_signer
          /\ Owned
          /\ VrfLoaded.ok
          /\ VrfRecord.authority # last'.key )
        => ( /\ last'.result = "InvalidAuthority"
             /\ vrf_account' = vrf_account
             /\ game_account' = game_account ) ]_vars

\* a reveal by another identity was refused on a record that holds a commitment
C1_Witness ==
    /\ last.op = "FulfillRandomness"
    /\ last.is_signer
    /\ last.result = "InvalidAuthority"
    /\ VrfLoaded.ok
    /\ VrfRecord.seed # None
    /\ VrfRecord.authority # last.key
    /\ GameLoaded.ok

\* C2 as stated: a submitGuess signed by an identity other than the
\* GameRecord's authority returns InvalidAuthority and leaves the GameRecord
\* as it was.
C2_GuessNeedsAuthority ==
    [][ ( /\ last'.op = "SubmitGuess"
          /\ last'.is_signer
          /\ game_account.owner = program_id
          /\ GameLoaded.ok
          /\ GameRecord.authority # last'.key )
        => ( /\ last'.result = "InvalidAuthority"
             /\ game_account' = game_account ) ]_vars

\* C2 amended: a submitGuess signed by an identity other than the GameRecord's
\* authority is never refused with InvalidAuthority: in AwaitingPlayerGuess it
\* succeeds and completes the game with that guess, in the other phases it
\* returns InvalidGameState and leaves the GameRecord as it was.
C2_AnySignerMayGuess ==
    [][ ( /\ last'.op = "SubmitGuess"
          /\ last'.is_signer
          /\ game_account.owner = program_id
          /\ GameLoaded.ok
          /\ GameRecord.authority # last'.key )
        => ( /\ last'.result # "InvalidAuthority"
             /\ GameRecord.game_state = "AwaitingPlayerGuess"
                  => LET after == GameTryFromSlice(game_account'.data)
                     IN  /\ last'.result = "Ok"
                         /\ after.ok
                         /\ after.val.game_state = "GameComplete"
                         /\ after.val.player_guess = last'.arg
                         /\ after.val.authority = GameRecord.authority
             /\ GameRecord.game_state # "AwaitingPlayerGuess"
                  => /\ last'.result = "InvalidGameState"
                     /\ game_account' = game_account ) ]_vars

\* a guess signed by an identity other than the game's authority completed it
C2_Witness ==
    /\ last.op = "SubmitGuess"
    /\ last.result = "Ok"
    /\ GameLoaded.ok
    /\ GameRecord.game_state = "GameComplete"
    /\ GameRecord.authority # last.key

\* C3: whenever a successful Initialize, commit or reveal changes an
\* initialized RandomnessRecord, its signer is the authority the record held
\* before the step.
C3_OnlyAuthorityMutatesVrf ==
    [][ ( /\ last'.op \in VrfOps
          /\ last'.result = "Ok"
          /\ VrfLoaded.ok
          /\ VrfRecord.is_initialized
          /\ vrf_account'.data # vrf_account.data )
        => last'.key = VrfRecord.authority ]_vars

\* C4: Initialize of an initialized RandomnessRecord, and Initialize of an
\* initialized GameRecord, fails and leaves the record as it was.
C4_InitializeOnce ==
    [][ /\ ( /\ last'.op = "Initialize"
             /\ VrfLoaded.ok
             /\ VrfRecord.is_initialized )
           => ( last'.result # "Ok" /\ vrf_account' = vrf_account )
        /\ ( /\ last'.op = "InitializeGame"
             /\ GameLoaded.ok
             /\ GameRecord.is_initialized )
           => ( last'.result # "Ok" /\ game_account' = game_account ) ]_vars

\* C5: whenever a successful Initialize-game or commit rewrites an initialized
\* GameRecord to AwaitingRandomness, its signer is the authority stored in
\* that GameRecord.
C5_OnlyAuthorityResetsGame ==
    [][ ( /\ last'.op \in {"InitializeGame", "RequestRandomness"}
          /\ last'.result = "Ok"
          /\ GameLoaded.ok
          /\ GameRecord.is_initialized )
        => last'.key = GameRecord.authority ]_vars

(***************************************************************************)
(* Record invariants                                                       *)
(***************************************************************************)

\* C6: a GameRecord in AwaitingPlayerGuess holds a randomness and neither a
\* guess nor a result.
C6_AwaitingPlayerGuessShape ==
    ( GameLoaded.ok /\ GameRecord.game_state = "AwaitingPlayerGuess" )
      => ( /\ GameRecord.randomness # None
           /\ GameRecord.player_guess = None
           /\ GameRecord.result = None )

\* C7: a GameRecord in GameComplete holds a guess and a result.
C7_GameCompleteShape ==
    ( GameLoaded.ok /\ GameRecord.game_state = "GameComplete" )
      => ( GameRecord.player_guess # None /\ GameRecord.result # None )

\* a guess has just completed the game
C7_Witness ==
    /\ last.op = "SubmitGuess"
    /\ last.result = "Ok"
    /\ GameLoaded.ok
    /\ GameRecord.game_state = "GameComplete"
    /\ GameRecord.player_guess = last.arg

\* C8: a GameRecord in AwaitingRandomness holds no randomness, no guess and
\* no result.
C8_AwaitingRandomnessShape ==
    ( GameLoaded.ok /\ GameRecord.game_state = "AwaitingRandomness" )
      => ( /\ GameRecord.randomness = None
           /\ GameRecord.player_guess = None
           /\ GameRecord.result = None )

\* a commit has just put the game to AwaitingRandomness
C8_Witness ==
    /\ last.op = "RequestRandomness"
    /\ last.result = "Ok"
    /\ GameLoaded.ok
    /\ GameRecord.game_state = "AwaitingRandomness"
    /\ GameRecord.randomness = None

\* C9: the randomness and the proof of a RandomnessRecord are both present or
\* both absent: both present after a reveal, both absent after a commit and
\* after an Initialize.
C9_RandomnessWithProof ==
    /\ VrfLoaded.ok => ( VrfRecord.randomness = None <=> VrfRecord.proof = None )
    /\ ( last.op = "FulfillRandomness" /\ last.result = "Ok" )
         => ( /\ VrfLoaded.ok
              /\ VrfRecord.randomness # None
              /\ VrfRecord.proof = last.arg )
    /\ ( last.op \in {"RequestRandomness", "Initialize"} /\ last.result = "Ok" )
         => ( /\ VrfLoaded.ok
              /\ VrfRecord.randomness = None
              /\ VrfRecord.proof = None )

\* a reveal has just stored its proof and the randomness derived from it
C9_Witness ==
    /\ last.op = "FulfillRandomness"
    /\ last.result = "Ok"
    /\ VrfLoaded.ok
    /\ VrfRecord.proof = last.arg
    /\ VrfRecord.randomness # None

\* C10: no step moves a GameRecord from GameComplete to AwaitingPlayerGuess,
\* and none moves it from AwaitingRandomness straight to GameComplete.
C10_PhaseMonotone ==
    [][ LET after == GameTryFromSlice(game_account'.data)
        IN  ( GameLoaded.ok /\ after.ok )
            => ( /\ ~ ( /\ GameRecord.game_state = "GameComplete"
                        /\ after.val.game_state = "AwaitingPlayerGuess" )
                 /\ ~ ( /\ GameRecord.game_state = "AwaitingRandomness"
                        /\ after.val.game_state = "GameComplete" ) ) ]_vars

(***************************************************************************)
(* The operations, one by one.                                             *)
(***************************************************************************)

\* C11: a signed submitGuess on a program-owned GameRecord that is in
\* AwaitingRandomness or in GameComplete returns InvalidGameState and leaves
\* the GameRecord as it was; a guess on a completed game therefore changes
\* neither its player_guess nor its result.
C11_GuessOutOfPhaseRefused ==
    [][ ( /\ last'.op = "SubmitGuess"
          /\ last'.is_signer
          /\ game_account.owner = program_id
          /\ GameLoaded.ok
          /\ GameRecord.game_state \in {"AwaitingRandomness", "GameComplete"} )
        => ( /\ last'.result = "InvalidGameState"
             /\ game_account' = game_account
             /\ vrf_account' = vrf_account ) ]_vars

\* a second guess on a completed game was refused, guess and result in place
C11_Witness ==
    /\ last.op = "SubmitGuess"
    /\ last.is_signer
    /\ last.result = "InvalidGameState"
    /\ GameLoaded.ok
    /\ GameRecord.game_state = "GameComplete"
    /\ GameRecord.player_guess # None
    /\ GameRecord.result # None

\* C12: a reveal signed by the authority of a RandomnessRecord that holds no
\* seed returns InvalidArgument (the commitment is missing) and leaves both
\* records as they were; a reveal that returns Ok was made on a record that
\* held a seed.
C12_RevealNeedsCommit ==
    [][ /\ ( /\ last'.op = "FulfillRandomness"
             /\ last'.is_signer
             /\ Owned
             /\ VrfLoaded.ok
             /\ VrfRecord.authority = last'.key
             /\ VrfRecord.seed = None )
           => ( /\ last'.result = "InvalidArgument"
                /\ vrf_account' = vrf_account
                /\ game_account' = game_account )
        /\ ( last'.op = "FulfillRandomness" /\ last'.result = "Ok" )
           => ( VrfLoaded.ok /\ VrfRecord.seed # None ) ]_vars

\* a reveal was refused on an initialized record that holds no seed
C12_Witness ==
    /\ last.op = "FulfillRandomness"
    /\ last.is_signer
    /\ last.result = "InvalidArgument"
    /\ Owned
    /\ VrfLoaded.ok
    /\ VrfRecord.authority = last.key
    /\ VrfRecord.seed = None
    /\ GameLoaded.ok

\* C13: whatever the records held before, a commit of seed s that returns Ok
\* leaves the RandomnessRecord with seed s and neither randomness nor proof,
\* and the GameRecord in AwaitingRandomness with randomness, player_guess and
\* result absent; this holds for a GameRecord that was in GameComplete too.
C13_CommitPostState ==
    [][ ( last'.op = "RequestRandomness" /\ last'.result = "Ok" )
        => LET v == VrfTryFromSlice(vrf_account'.data)
               g == GameTryFromSlice(game_account'.data)
           IN  /\ v.ok
               /\ v.val.seed = last'.arg
               /\ v.val.randomness = None
               /\ v.val.proof = None
               /\ g.ok
               /\ g.val.game_state = "AwaitingRandomness"
               /\ g.val.randomness = None
               /\ g.val.player_guess = None
               /\ g.val.result = None ]_vars

\* a commit has just stored a seed of one byte and reset the game
C13_Witness ==
    /\ last.op = "RequestRandomness"
    /\ last.result = "Ok"
    /\ last.arg # None
    /\ Len(Unwrap(last.arg)) = MaxSeedLen
    /\ VrfLoaded.ok
    /\ VrfRecord.seed = last.arg
    /\ VrfRecord.proof = None
    /\ GameLoaded.ok
    /\ GameRecord.game_state = "AwaitingRandomness"
    /\ GameRecord.player_guess = None

\* C14: a reveal of proof p that returns Ok on a RandomnessRecord with seed s
\* leaves the seed s in place, stores proof p and the randomness
\* Sha3_256(p followed by s), copies that randomness into the GameRecord and
\* puts the GameRecord in AwaitingPlayerGuess.
C14_RevealPostState ==
    [][ ( last'.op = "FulfillRandomness" /\ last'.result = "Ok" )
        => LET v == VrfTryFromSlice(vrf_account'.data)
               g == GameTryFromSlice(game_account'.data)
           IN  /\ VrfLoaded.ok
               /\ VrfRecord.seed # None
               /\ v.ok
               /\ v.val.seed = VrfRecord.seed
               /\ v.val.proof = last'.arg
               /\ v.val.randomness =
                      Some(Sha3_256(Unwrap(last'.arg) \o Unwrap(VrfRecord.seed)))
               /\ g.ok
               /\ g.val.randomness = v.val.randomness
               /\ g.val.game_state = "AwaitingPlayerGuess" ]_vars

\* a reveal on a one-byte seed has just stored the hash of proof and seed
C14_Witness ==
    /\ last.op = "FulfillRandomness"
    /\ last.result = "Ok"
    /\ VrfLoaded.ok
    /\ VrfRecord.seed # None
    /\ Len(Unwrap(VrfRecord.seed)) = MaxSeedLen
    /\ VrfRecord.randomness =
           Some(Sha3_256(Unwrap(last.arg) \o Unwrap(VrfRecord.seed)))
    /\ GameLoaded.ok
    /\ GameRecord.randomness = VrfRecord.randomness
    /\ GameRecord.game_state = "AwaitingPlayerGuess"

\* C15: a signed submitGuess with guess g on a program-owned GameRecord in
\* AwaitingPlayerGuess with randomness r returns Ok for every g in 0..255,
\* stores player_guess g, puts the game in GameComplete, and stores Win when
\* g is the first byte of r modulo 100 and Lose otherwise; a guess of 100 or
\* more always stores Lose.
C15_GuessPostState ==
    [][ /\ ( /\ last'.op = "SubmitGuess"
             /\ last'.is_signer
             /\ game_account.owner = program_id
             /\ GameLoaded.ok
             /\ GameRecord.game_state = "AwaitingPlayerGuess"
             /\ GameRecord.randomness # None )
           => last'.result = "Ok"
        /\ ( last'.op = "SubmitGuess" /\ last'.result = "Ok" )
           => LET g == GameTryFromSlice(game_account'.data)
                  guess == Unwrap(last'.arg)
                  r == Unwrap(GameRecord.randomness)
              IN  /\ GameLoaded.ok
                  /\ GameRecord.game_state = "AwaitingPlayerGuess"
                  /\ GameRecord.randomness # None
                  /\ g.ok
                  /\ g.val.player_guess = Some(guess)
                  /\ g.val.game_state = "GameComplete"
                  /\ g.val.randomness = GameRecord.randomness
                  /\ g.val.result = Some(IF guess = r[1] % 100
                                         THEN "Win" ELSE "Lose")
                  /\ guess >= 100 => g.val.result = Some("Lose") ]_vars

\* a guess below 100 has just won against a first byte of 100 or more
C15_Witness ==
    /\ last.op = "SubmitGuess"
    /\ last.result = "Ok"
    /\ GameLoaded.ok
    /\ GameRecord.game_state = "GameComplete"
    /\ GameRecord.randomness # None
    /\ Unwrap(GameRecord.randomness)[1] >= 100
    /\ GameRecord.player_guess = Some(Unwrap(GameRecord.randomness)[1] % 100)
    /\ GameRecord.result = Some("Win")

\* C16: no reachable GameRecord is in AwaitingPlayerGuess without randomness,
\* and no submitGuess returns RandomnessNotAvailable.
C16_RandomnessUnavailableUnreachable ==
    /\ ( GameLoaded.ok /\ GameRecord.game_state = "AwaitingPlayerGuess" )
         => GameRecord.randomness # None
    /\ last.result # "RandomnessNotAvailable"

\* a game open for guessing holds its randomness after a guess was turned away
C16_Witness ==
    /\ last.op = "SubmitGuess"
    /\ last.result # "Ok"
    /\ game_account.owner = program_id
    /\ GameLoaded.ok
    /\ GameRecord.game_state = "AwaitingPlayerGuess"
    /\ GameRecord.randomness # None

(***************************************************************************)
(* The round played by bin/cli.rs: create the two accounts, initialize the *)
(* RandomnessRecord and the GameRecord, commit, reveal, guess.  The        *)
(* accounts are created owned by the program and zero-filled, with the     *)
(* length the creator asked for: none, the length of a new record, or the  *)
(* length VrfClient asks for; the host never changes that length.  The     *)
(* same round is also run on storage sized to the record stored in it.     *)
(***************************************************************************)
\* client.rs: std::mem::size_of::<VrfAccountState>()
VRF_ACCOUNT_SIZE == 192

\* client.rs: std::mem::size_of::<GameAccountState>()
GAME_ACCOUNT_SIZE == 70

\* system_instruction::create_account: data of the given length, all zero
Allocated(space) == [j \in 1..space |-> 0]

VrfSpaces == {0, Len(EncVrf(NewVrf(Pubkey(1)))), VRF_ACCOUNT_SIZE}
GameSpaces == {0, Len(EncGame(NewGame(Pubkey(1)))), GAME_ACCOUNT_SIZE}

ScenarioInit ==
    /\ alloc \in {"fitted", "fixed"}
    /\ \E space \in (IF alloc = "fitted" THEN {0} ELSE VrfSpaces) :
           vrf_account = [owner |-> program_id, data |-> Allocated(space)]
    /\ \E space \in (IF alloc = "fitted" THEN {0} ELSE GameSpaces) :
           game_account = [owner |-> program_id, data |-> Allocated(space)]
    /\ last = NoCall

\* the identity X that signs the round
Authorities == { signer \in Signers : signer.is_signer }

ScenarioInitialize ==
    /\ last.op = "none"
    /\ \E signer \in Authorities :
           Call("Initialize", signer, None,
                initialize_vrf(signer, vrf_account, game_account))

ScenarioInitializeGame ==
    /\ last.op = "Initialize"
    /\ \E signer \in Authorities :
           /\ signer.key = last.key
           /\ Call("InitializeGame", signer, None,
                   initialize_game(signer, vrf_account, game_account))

ScenarioCommit ==
    /\ last.op = "InitializeGame"
    /\ \E signer \in Authorities, seed \in Seeds :
           /\ signer.key = last.key
           /\ Call("RequestRandomness", signer, Some(seed),
                   request_randomness(signer, vrf_account, game_account, seed))

ScenarioReveal ==
    /\ last.op = "RequestRandomness"
    /\ \E signer \in Authorities, proof \in Proofs :
           /\ signer.key = last.key
           /\ Call("FulfillRandomness", signer, Some(proof),
                   fulfill_randomness(signer, vrf_account, game_account, proof))

ScenarioGuess ==
    /\ last.op = "FulfillRandomness"
    /\ \E signer \in Authorities, guess \in Guesses :
           Call("SubmitGuess", signer, Some(guess),
                submit_guess(signer, vrf_account, game_account, guess))

ScenarioNext ==
    \/ ScenarioInitialize
    \/ ScenarioInitializeGame
    \/ ScenarioCommit
    \/ ScenarioReveal
    \/ ScenarioGuess

ScenarioSpec == ScenarioInit /\ [][ScenarioNext]_vars

\* C17: in the round Initialize, InitializeGame, commit of seed s, reveal of
\* proof p, all signed by one identity on two empty program-owned accounts,
\* every step returns Ok; the reveal leaves the game in AwaitingPlayerGuess
\* with randomness Sha3_256(p followed by s); the guess that follows returns
\* Ok and ends in GameComplete, with Win for the first randomness byte modulo
\* 100 and with Lose for that number plus one modulo 100.
C17_EndToEnd ==
    [][ /\ last'.result = "Ok"
        /\ last'.op = "FulfillRandomness"
           => LET g == GameTryFromSlice(game_account'.data)
              IN  /\ last.op = "RequestRandomness"
                  /\ g.ok
                  /\ g.val.game_state = "AwaitingPlayerGuess"
                  /\ g.val.randomness =
                         Some(Sha3_256(Unwrap(last'.arg) \o Unwrap(last.arg)))
        /\ last'.op = "SubmitGuess"
           => LET g == GameTryFromSlice(game_account'.data)
                  number == Unwrap(GameRecord.randomness)[1] % 100
                  guess == Unwrap(last'.arg)
              IN  /\ g.ok
                  /\ g.val.game_state = "GameComplete"
                  /\ guess = number => g.val.result = Some("Win")
                  /\ guess = (number + 1) % 100 => g.val.result = Some("Lose")
      ]_vars

(***************************************************************************)
(* lib.rs: the entrypoint of the program, which receives the instruction   *)
(* as bytes and hands them to one of the two dispatchers of processor.rs.  *)
(***************************************************************************)
\* instruction.rs: VrfInstruction::deserialize, the variant index first
DecVrfInstruction(buf) ==
    LET tag == ReadU8(buf) IN
    IF ~tag.ok THEN Fail
    ELSE IF tag.val = 0
    THEN Read([op |-> "Initialize", arg |-> None], tag.rest)
    ELSE IF tag.val = 1
    THEN LET seed == ReadVec(tag.rest)
         IN  IF ~seed.ok THEN Fail
             ELSE Read([op |-> "RequestRandomness", arg |-> Some(seed.val)],
                       seed.rest)
    ELSE IF tag.val = 2
    THEN LET proof == ReadProof(tag.rest)
         IN  IF ~proof.ok THEN Fail
             ELSE Read([op |-> "FulfillRandomness", arg |-> Some(proof.val)],
                       proof.rest)
    ELSE Fail

\* instruction.rs: GameInstruction::deserialize
DecGameInstruction(buf) ==
    LET tag == ReadU8(buf) IN
    IF ~tag.ok THEN Fail
    ELSE IF tag.val = 0
    THEN Read([op |-> "InitializeGame", arg |-> None], tag.rest)
    ELSE IF tag.val = 1
    THEN LET guess == ReadU8(tag.rest)
         IN  IF ~guess.ok THEN Fail
             ELSE Read([op |-> "SubmitGuess", arg |-> Some(guess.val)],
                       guess.rest)
    ELSE Fail

VrfInstructionTryFromSlice(buf) == TryFromSlice(DecVrfInstruction(buf))
GameInstructionTryFromSlice(buf) == TryFromSlice(DecGameInstruction(buf))

\* what a dispatcher did: the operation it ran, if the bytes decoded, the
\* payload it handed to it, and what the operation left
Dispatched(op, arg, out) == [op |-> op, arg |-> arg, out |-> out]

\* the bytes are no instruction: no operation is run
Undecoded(vrf, game) ==
    Dispatched("undecoded", None,
               Outcome("InvalidInstruction", vrf.data, game.data))

\* processor.rs: process_instruction
process_instruction(authority, vrf, game, instruction_data) ==
    LET instruction == VrfInstructionTryFromSlice(instruction_data) IN
    IF ~instruction.ok THEN Undecoded(vrf, game)
    ELSE LET op == instruction.val.op
             arg == instruction.val.arg
         IN  Dispatched(op, arg,
                 CASE op = "Initialize" -> initialize_vrf(authority, vrf, game)
                   [] op = "RequestRandomness" ->
                          request_randomness(authority, vrf, game, Unwrap(arg))
                   [] op = "FulfillRandomness" ->
                          fulfill_randomness(authority, vrf, game, Unwrap(arg)))

\* processor.rs: process_game_instruction
process_game_instruction(authority, vrf, game, instruction_data) ==
    LET instruction == GameInstructionTryFromSlice(instruction_data) IN
    IF ~instruction.ok THEN Undecoded(vrf, game)
    ELSE LET op == instruction.val.op
             arg == instruction.val.arg
         IN  Dispatched(op, arg,
                 CASE op = "InitializeGame" -> initialize_game(authority, vrf, game)
                   [] op = "SubmitGuess" ->
                          submit_guess(authority, vrf, game, Unwrap(arg)))

\* lib.rs: process_instruction, the function named in entrypoint!
entrypoint(authority, vrf, game, instruction_data) ==
    IF Len(instruction_data) > 0 /\ instruction_data[1] = 0
    THEN process_game_instruction(authority, vrf, game,
                                  After(instruction_data, 1))
    ELSE process_instruction(authority, vrf, game, instruction_data)

\* instruction.rs: the Borsh encoding of the instructions
VrfInstructionBytes ==
    { <<0>> }
      \cup { <<1>> \o EncVec(seed) : seed \in Seeds }
      \cup { <<2>> \o proof : proof \in Proofs }

GameInstructionBytes == { <<0>> } \cup { <<1, guess>> : guess \in Guesses }

\* client.rs: the bytes VrfClient sends for its five operations
ClientData ==
    { <<0>>, <<0, 0>> }
      \cup { <<1>> \o U32LE(Len(seed)) \o seed : seed \in Seeds }
      \cup { <<2>> \o proof : proof \in Proofs }
      \cup { <<0, 1, guess>> : guess \in Guesses }

\* one domain byte, 0 for Game and 1 for Randomness, then the instruction
DomainData ==
    { <<0>> \o bytes : bytes \in GameInstructionBytes }
      \cup { <<1>> \o bytes : bytes \in VrfInstructionBytes }

\* bytes that are no instruction under either layout: nothing, an unknown
\* first byte alone or before an instruction, an unknown second byte, a
\* payload cut short, a byte too many
OtherData ==
    { << >>, <<3>>, <<255>>, <<0, 2>>, <<1, 3>>, <<0, 1>>, <<2>>, <<0, 0, 0>> }
      \cup { <<3>> \o bytes : bytes \in GameInstructionBytes }
      \cup { <<2>> \o bytes : bytes \in VrfInstructionBytes }

InstructionData == ClientData \cup DomainData \cup OtherData

\* one transaction sent to the program: the host keeps what was written to
\* the accounts only when Ok is returned; last keeps the bytes sent with it
Transaction(signer, data, ran) ==
    /\ vrf_account' = IF ran.out.result = "Ok"
                      THEN [vrf_account EXCEPT !.data = ran.out.vrf_data]
                      ELSE vrf_account
    /\ game_account' = IF ran.out.result = "Ok"
                       THEN [game_account EXCEPT !.data = ran.out.game_data]
                       ELSE game_account
    /\ last' = [op |-> ran.op, key |-> signer.key,
                is_signer |-> signer.is_signer, arg |-> ran.arg,
                result |-> ran.out.result, data |-> data]
    /\ UNCHANGED alloc

Entrypoint ==
    \E signer \in Signers, data \in InstructionData :
        Transaction(signer, data,
                    entrypoint(signer, vrf_account, game_account, data))

\* before the first transaction
NoTransaction ==
    [op |-> "none", key |-> None, is_signer |-> FALSE, arg |-> None,
     result |-> "none", data |-> << >>]

EntryInit ==
    /\ vrf_account \in [owner : {program_id, other_program}, data : {<< >>}]
    /\ game_account \in [owner : {program_id, other_program}, data : {<< >>}]
    /\ alloc = "fitted"
    /\ last = NoTransaction

EntryNext == Entrypoint

EntrySpec == EntryInit /\ [][EntryNext]_vars

(***************************************************************************)
(* Instruction bytes.                                                      *)
(***************************************************************************)

\* C18: the entrypoint takes the first byte as the domain and strips it:
\* bytes 0 followed by the encoding of a Game instruction run that Game
\* operation with its payload, and bytes 1 followed by the encoding of a
\* Randomness instruction (0 Initialize, 1 commit with u32 length and seed,
\* 2 reveal with a 64-byte proof) run that Randomness operation with its
\* payload.
C18_DomainByteStripped ==
    last.op # "none"
    => LET domain == IF Len(last.data) = 0 THEN 255 ELSE last.data[1]
           game_op == GameInstructionTryFromSlice(After(last.data, 1))
           vrf_op == VrfInstructionTryFromSlice(After(last.data, 1))
       IN  /\ ( domain = 0 /\ game_op.ok )
                => ( last.op = game_op.val.op /\ last.arg = game_op.val.arg )
           /\ ( domain = 1 /\ vrf_op.ok )
                => ( last.op = vrf_op.val.op /\ last.arg = vrf_op.val.arg )

\* C19: bytes whose first byte is neither 0 nor 1, or whose second byte is no
\* operation of the domain the first byte selects, return InvalidInstruction,
\* run no operation and leave the accounts as they were.
C19_UnknownDiscriminantRejected ==
    [][ LET data == last'.data IN
        ( \/ Len(data) >= 1 /\ data[1] \notin {0, 1}
          \/ Len(data) >= 2 /\ data[1] = 0 /\ data[2] \notin {0, 1}
          \/ Len(data) >= 2 /\ data[1] = 1 /\ data[2] \notin {0, 1, 2} )
        => ( /\ last'.result = "InvalidInstruction"
             /\ last'.op = "undecoded"
             /\ vrf_account' = vrf_account
             /\ game_account' = game_account ) ]_vars

(***************************************************************************)
(* Signature.                                                              *)
(***************************************************************************)

\* C20: each of the five operations, called with a first account that did
\* not sign, returns MissingRequiredSignature and leaves both accounts as
\* they were, whoever owns the accounts and whether or not their data
\* decodes: the signature is checked before anything is loaded.
C20_UnsignedCallRefused ==
    [][ ( /\ last'.op \in {"Initialize", "RequestRandomness",
                           "FulfillRandomness", "InitializeGame", "SubmitGuess"}
          /\ ~last'.is_signer )
        => ( /\ last'.result = "MissingRequiredSignature"
             /\ vrf_account' = vrf_account
             /\ game_account' = game_account ) ]_vars

\* an unsigned commit was refused for its signature on records that would
\* have let a signed commit by the same identity through
C20_Witness ==
    /\ last.op = "RequestRandomness"
    /\ ~last.is_signer
    /\ last.result = "MissingRequiredSignature"
    /\ Owned
    /\ VrfLoaded.ok
    /\ VrfRecord.authority = last.key
    /\ GameLoaded.ok

(***************************************************************************)
(* Ownership.                                                              *)
(***************************************************************************)

\* C21: a signed call of any of the five operations with a record it is
\* handed owned by another program returns IncorrectProgramId and leaves both
\* accounts as they were: the RandomnessRecord for Initialize, the GameRecord
\* for InitializeGame, and both records for commit, reveal and submitGuess.
C21_ForeignRecordRefused ==
    [][ ( /\ last'.is_signer
          /\ \/ /\ last'.op = "Initialize"
                /\ vrf_account.owner # program_id
             \/ /\ last'.op = "InitializeGame"
                /\ game_account.owner # program_id
             \/ /\ last'.op \in {"RequestRandomness", "FulfillRandomness",
                                 "SubmitGuess"}
                /\ ~Owned )
        => ( /\ last'.result = "IncorrectProgramId"
             /\ vrf_account' = vrf_account
             /\ game_account' = game_account ) ]_vars

(***************************************************************************)
(* The five operations on accounts as the host keeps them: created         *)
(* zero-filled with a length that never changes afterwards.  StorageSpec   *)
(* runs them on such accounts and on storage sized to the record.          *)
(***************************************************************************)
\* the longest records of the model: every optional field present
LargestVrf ==
    [authority |-> Pubkey(1), is_initialized |-> TRUE,
     seed |-> Some([j \in 1..MaxSeedLen |-> 7]),
     randomness |-> Some(Sha3_256(<< >>)),
     proof |-> Some([j \in 1..PROOF_BYTES |-> 1]),
     public_key |-> public_key]

LargestGame ==
    [authority |-> Pubkey(1), is_initialized |-> TRUE,
     randomness |-> Some(Sha3_256(<< >>)),
     game_state |-> "GameComplete", player_guess |-> Some(0),
     result |-> Some("Win")]

FixedInit ==
    /\ alloc = "fixed"
    /\ vrf_account \in [owner : {program_id, other_program},
                        data : { Allocated(space) : space \in VrfSpaces }]
    /\ game_account \in
           [owner : {program_id, other_program},
            data : { Allocated(space) :
                       space \in GameSpaces \cup {Len(EncGame(LargestGame))} }]
    /\ last = NoCall

FixedSpec == FixedInit /\ [][Next]_vars

StorageInit == Init \/ FixedInit

StorageSpec == StorageInit /\ [][Next]_vars

(***************************************************************************)
(* Both records or neither.                                                *)
(***************************************************************************)

FirstBytes == 0..255

\* a randomness with the given first byte; the other bytes differ from it
RandomnessFrom(byte) ==
    [j \in 1..RANDOMNESS_BYTES |-> IF j = 1 THEN byte ELSE (byte + 3 * j) % 256]

\* the function is applied to a randomness; last keeps argument and result
GameNumber ==
    \E byte \in FirstBytes :
        /\ last' = [op |-> "calculate_game_number", key |-> None,
                    is_signer |-> FALSE, arg |-> Some(RandomnessFrom(byte)),
                    result |-> calculate_game_number(RandomnessFrom(byte))]
        /\ UNCHANGED << vrf_account, game_account, alloc >>

NumberNext == GameNumber

NumberSpec == Init /\ [][NumberNext]_vars

\* C23: calculate_game_number of a 32-byte randomness is in 0..99, and among
\* the 256 values of the first byte each number from 0 to 55 comes from
\* exactly 3 of them and each number from 56 to 99 from exactly 2.
C23_GameNumberRange ==
    last.op = "calculate_game_number"
    => /\ last.result \in 0..99
       /\ last.result = Unwrap(last.arg)[1] % 100
       /\ Cardinality({ byte \in FirstBytes :
                          calculate_game_number(RandomnessFrom(byte)) = last.result })
            = IF last.result <= 55 THEN 3 ELSE 2

\* the largest first byte gave the last number that three bytes give
C23_Witness ==
    /\ last.op = "calculate_game_number"
    /\ Unwrap(last.arg)[1] = 255
    /\ last.result = 55

(***************************************************************************)
(* Empty storage.                                                          *)
(***************************************************************************)

\* C24: a signed commit, reveal or submitGuess on program-owned accounts, one
\* of whose records it loads has no data yet, does not return a decode
\* error: commit and reveal load both records, submitGuess the GameRecord.
C24_EmptyRecordNotDecoded ==
    [][ ( /\ last'.is_signer
          /\ Owned
          /\ \/ /\ last'.op \in {"RequestRandomness", "FulfillRandomness"}
                /\ Len(vrf_account.data) = 0 \/ Len(game_account.data) = 0
             \/ /\ last'.op = "SubmitGuess"
                /\ Len(game_account.data) = 0 )
        => last'.result # "BorshIoError" ]_vars

(***************************************************************************)
(* state.rs: the Borsh encoding of the two records, written and read back. *)
(***************************************************************************)
\* an optional field: absent, or present with one of the values
Optional(values) == {None} \cup { Some(v) : v \in values }

\* the fields of a record in the order of the struct, and the record again
VrfFields(vrf_state) ==
    << vrf_state.authority, vrf_state.is_initialized, vrf_state.seed,
       vrf_state.randomness, vrf_state.proof, vrf_state.public_key >>

VrfOf(fields) ==
    [authority |-> fields[1], is_initialized |-> fields[2],
     seed |-> fields[3], randomness |-> fields[4], proof |-> fields[5],
     public_key |-> fields[6]]

GameFields(game_state) ==
    << game_state.authority, game_state.is_initialized, game_state.randomness,
       game_state.game_state, game_state.player_guess, game_state.result >>

GameOf(fields) ==
    [authority |-> fields[1], is_initialized |-> fields[2],
     randomness |-> fields[3], game_state |-> fields[4],
     player_guess |-> fields[5], result |-> fields[6]]

\* a record is serialized and the bytes are given to try_from_slice, once;
\* last keeps the fields of the record, the bytes, and the fields read back
Encoded(type, fields, bytes, decoded) ==
    /\ last.op = "none"
    /\ last' = [op |-> type, key |-> None, is_signer |-> FALSE,
                arg |-> Some(fields), result |-> bytes, decoded |-> decoded]
    /\ UNCHANGED << vrf_account, game_account, alloc >>

VrfRoundTrip(fields, decoded) ==
    Encoded("VrfAccountState", fields, EncVrf(VrfOf(fields)),
            IF decoded.ok THEN Some(VrfFields(decoded.val)) ELSE None)

GameRoundTrip(fields, decoded) ==
    Encoded("GameAccountState", fields, EncGame(GameOf(fields)),
            IF decoded.ok THEN Some(GameFields(decoded.val)) ELSE None)

\* the RandomnessRecord values: each optional field absent or present
VrfFieldValues ==
    Keys \X BOOLEAN \X Optional(Seeds) \X Optional(Derivable)
         \X Optional(Proofs) \X {public_key}

\* the GameRecord values: every phase, guess and result, absent or present
GameFieldValues ==
    Keys \X BOOLEAN \X Optional(Derivable) \X GameStates
         \X Optional(Guesses \cup {0, 1}) \X Optional(GameResults)

EncodeVrf ==
    \E fields \in VrfFieldValues :
        VrfRoundTrip(fields, VrfTryFromSlice(EncVrf(VrfOf(fields))))

EncodeGame ==
    \E fields \in GameFieldValues :
        GameRoundTrip(fields, GameTryFromSlice(EncGame(GameOf(fields))))

CodecNext ==
    \/ EncodeVrf
    \/ EncodeGame

CodecSpec == Init /\ [][CodecNext]_vars

\* the optional fields of the two records, by their place in the struct
VrfOptions == {3, 4, 5}
GameOptions == {3, 5, 6}

\* C25: every RandomnessRecord and GameRecord value, with each optional
\* field absent or present and every phase and result, is read back from its
\* encoding as the same value, and making a present optional field absent
\* changes the encoding.
C25_CodecRoundTrip ==
    /\ last.op \in {"VrfAccountState", "GameAccountState"}
         => last.decoded = last.arg
    /\ last.op = "VrfAccountState"
         => \A f \in VrfOptions :
                Unwrap(last.arg)[f] # None
                => EncVrf(VrfOf([Unwrap(last.arg) EXCEPT ![f] = None]))
                     # last.result
    /\ last.op = "GameAccountState"
         => \A f \in GameOptions :
                Unwrap(last.arg)[f] # None
                => EncGame(GameOf([Unwrap(last.arg) EXCEPT ![f] = None]))
                     # last.result

\* a GameRecord in GameComplete with every optional field present, its guess
\* being 0 and its result Lose, was read back from its encoding
C25_Witness ==
    /\ last.op = "GameAccountState"
    /\ Unwrap(last.arg)[3] # None
    /\ Unwrap(last.arg)[4] = "GameComplete"
    /\ Unwrap(last.arg)[5] = Some(0)
    /\ Unwrap(last.arg)[6] = Some("Lose")
    /\ last.decoded = last.arg

(***************************************************************************)
(* Storage of fixed length.                                                *)
(***************************************************************************)

\* C26: on storage of fixed length, at least as long as the longest encoding
\* of the record, the bytes an operation that returned Ok leaves in a record
\* it wrote are accepted by try_from_slice, the decode step of the next
\* operation on that record.
C26_LoadStoreClosure ==
    ( alloc = "fixed" /\ last.result = "Ok" )
    => /\ ( /\ last.op \in VrfOps
            /\ Len(vrf_account.data) >= Len(EncVrf(LargestVrf)) )
          => VrfLoaded.ok
       /\ ( /\ last.op \in {"InitializeGame", "RequestRandomness",
                            "FulfillRandomness", "SubmitGuess"}
            /\ Len(game_account.data) >= Len(EncGame(LargestGame)) )
          => GameLoaded.ok

(***************************************************************************)
(* The bytes of the client.                                                *)
(***************************************************************************)

\* C27: the bytes VrfClient builds for each of its five operations are
\* handed by the entrypoint to the processor operation of the same name with
\* the payload the client put in them; the bytes of initialize_vrf run
\* initialize_vrf.
C27_ClientBytesRouted ==
    last.op # "none"
    => /\ last.data = <<0>> => last.op = "Initialize"
       /\ last.data = <<0, 0>> => last.op = "InitializeGame"
       /\ \A seed \in Seeds :
              last.data = <<1>> \o U32LE(Len(seed)) \o seed
              => ( last.op = "RequestRandomness" /\ last.arg = Some(seed) )
       /\ \A proof \in Proofs :
              last.data = <<2>> \o proof
              => ( last.op = "FulfillRandomness" /\ last.arg = Some(proof) )
       /\ \A guess \in Guesses :
              last.data = <<0, 1, guess>>
              => ( last.op = "SubmitGuess" /\ last.arg = Some(guess) )

(***************************************************************************)
(* The randomness of the pair.                                             *)
(***************************************************************************)

\* C28: in every reachable state of a pair of records that is always passed
\* together, a randomness present in the GameRecord is the randomness the
\* RandomnessRecord holds.
C28_GameRandomnessIsVrfRandomness ==
    ( GameLoaded.ok /\ GameRecord.randomness # None )
    => ( VrfLoaded.ok /\ VrfRecord.randomness = GameRecord.randomness )

====
